---------------------------- MODULE Spec2Model ----------------------------
(***************************************************************************)
(* Model of the three batch scripts of the National-Parks-DS repository:   *)
(*   process_president_winners.py  (election winner extractor)             *)
(*   clean_national_parks.py       (CSV cleaner)                           *)
(*   parse_monthly_data.py         (monthly-folder parser)                 *)
(* Each script is a straight-line program; its position is a pc variable   *)
(* and each numbered step of the script is one action.                     *)
(*                                                                         *)
(* Data representation.  A text is a sequence of one-character strings.    *)
(* A table cell is a tagged record: NaN (missing), None (Python None),     *)
(* Num(n) (a number; only integral values are modelled) or Str(s).         *)
(***************************************************************************)
EXTENDS Integers, Sequences, FiniteSets, TLC

VARIABLES
    \* process_president_winners.py
    w_pc, df_votes, idx, winners_df, winners_csv,
    \* clean_national_parks.py
    c_pc, input_df, df, zero_cols, cleaned_csv,
    \* parse_monthly_data.py
    p_pc, folders, pending, todo, month_data, file_name, column_name,
    all_data, report_df, report_csv,
    \* cell-level coercion (both scripts)
    n_pc, value, dtype, ncols, stored

varsW == <<w_pc, df_votes, idx, winners_df, winners_csv>>
varsC == <<c_pc, input_df, df, zero_cols, cleaned_csv>>
varsP == <<p_pc, folders, pending, todo, month_data, file_name, column_name,
           all_data, report_df, report_csv>>
varsN == <<n_pc, value, dtype, ncols, stored>>
vars  == <<varsW, varsC, varsP, varsN>>

---------------------------------------------------------------------------
(* Bounds of the model *)

\* longest free-form text drawn as a raw cell value
MaxLen == 3
\* most rows of an input table (cleaner, winner extractor)
MaxRows == 2
\* most CSV files in one month folder
MaxFiles == 3

---------------------------------------------------------------------------
(* Cells and texts *)

NaN     == [t |-> "nan"]
None    == [t |-> "none"]
Num(n)  == [t |-> "num", v |-> n]
Str(s)  == [t |-> "str", v |-> s]

\* pd.isna / pd.notna
IsNa(c) == c.t \in {"nan", "none"}

Digits == {"0", "1", "2", "3", "4", "5", "6", "7", "8", "9"}

DigitVal(ch) ==
    CASE ch = "0" -> 0 [] ch = "1" -> 1 [] ch = "2" -> 2 [] ch = "3" -> 3
      [] ch = "4" -> 4 [] ch = "5" -> 5 [] ch = "6" -> 6 [] ch = "7" -> 7
      [] ch = "8" -> 8 [] ch = "9" -> 9

DigitChar(d) ==
    CASE d = 0 -> "0" [] d = 1 -> "1" [] d = 2 -> "2" [] d = 3 -> "3"
      [] d = 4 -> "4" [] d = 5 -> "5" [] d = 6 -> "6" [] d = 7 -> "7"
      [] d = 8 -> "8" [] d = 9 -> "9"

\* str.replace(',', ''): every comma removed
RECURSIVE RemoveCommas(_)
RemoveCommas(s) ==
    IF s = <<>> THEN <<>>
    ELSE IF Head(s) = "," THEN RemoveCommas(Tail(s))
         ELSE <<Head(s)>> \o RemoveCommas(Tail(s))

RECURSIVE LStrip(_)
LStrip(s) ==
    IF s # <<>> /\ Head(s) = " " THEN LStrip(Tail(s)) ELSE s

RECURSIVE RStrip(_)
RStrip(s) ==
    IF s # <<>> /\ s[Len(s)] = " " THEN RStrip(SubSeq(s, 1, Len(s) - 1)) ELSE s

\* str.strip(): leading and trailing blanks removed
Strip(s) == RStrip(LStrip(s))

\* value of a non-empty run of digits, read left to right
RECURSIVE DigitsValue(_, _)
DigitsValue(s, acc) ==
    IF s = <<>> THEN acc
    ELSE DigitsValue(Tail(s), 10 * acc + DigitVal(Head(s)))

AllDigits(s) == s # <<>> /\ \A i \in 1..Len(s) : s[i] \in Digits

\* Text to number as float() and pd.to_numeric read it (integral decimal
\* numerals, optional sign, surrounding blanks tolerated); NaN when the
\* text is no numeral.
ParseNumber(s) ==
    LET u == Strip(s) IN
    IF AllDigits(u) THEN Num(DigitsValue(u, 0))
    ELSE IF u # <<>> /\ Head(u) = "-" /\ AllDigits(Tail(u))
         THEN Num(0 - DigitsValue(Tail(u), 0))
         ELSE NaN

RECURSIVE NatToStr(_)
NatToStr(n) ==
    IF n < 10 THEN <<DigitChar(n)>>
    ELSE NatToStr(n \div 10) \o <<DigitChar(n % 10)>>

\* Series.astype(str) on one cell
AsTypeStr(c) ==
    CASE c.t = "str"  -> c.v
      [] c.t = "num"  -> IF c.v < 0 THEN <<"-">> \o NatToStr(0 - c.v)
                         ELSE NatToStr(c.v)
      [] c.t = "nan"  -> <<"n", "a", "n">>
      [] c.t = "none" -> <<"N", "o", "n", "e">>


---------------------------------------------------------------------------
(* Cell-level coercion *)

\* clean_national_parks.py step 2, one cell of an object column:
\* astype(str).str.strip()
StripCell(c) == Str(Strip(AsTypeStr(c)))

\* A plausible slip: the commas are left in before the conversion.
ConvertCellKeepCommas(c) ==
    LET n == ParseNumber(AsTypeStr(c)) IN
    IF n.t = "nan" THEN Num(0) ELSE n

\* clean_national_parks.py step 3, one cell of a named numeric column:
\* astype(str).str.replace(',', ''), then
\* pd.to_numeric(errors='coerce').fillna(0).astype(int)
ConvertCell(c) ==
    LET n == ParseNumber(RemoveCommas(AsTypeStr(c))) IN
    IF n.t = "nan" THEN Num(0) ELSE n

\* parse_monthly_data.py remove_commas_from_number(value)
remove_commas_from_number(v) ==
    IF IsNa(v) THEN None
    ELSE IF v.t = "str"
         THEN LET s == Strip(RemoveCommas(v.v)) IN
              IF s = <<>> \/ s = <<"0">> THEN Num(0)
              ELSE LET n == ParseNumber(s) IN
                   IF n.t = "nan" THEN None ELSE n
         ELSE v

\* index of the column parse_csv_file reads the 2025 value from
value_col_idx == 6

\* parse_csv_file, the value taken from one row of a file of n columns:
\* remove_commas_from_number(row.iloc[6]) if len(row) > 6 else 0
ExtractValue(c, n) ==
    IF n > value_col_idx THEN remove_commas_from_number(c) ELSE Num(0)

---------------------------------------------------------------------------
(* Inputs of the cell-level specification *)

Alphabet == {"1", "0", ",", " ", "x", "-"}

Texts(n) == UNION {[1..k -> Alphabet] : k \in 1..n}

T_1234 == <<"1", ",", "2", "3", "4">>

\* What read_csv can deliver in one cell: a missing value, a number (cell of
\* a numeric column) or a non-empty text (cell of an object column).
RawCells ==
    {NaN} \cup {Num(n) : n \in {0, 7, 1234, 0 - 3}}
          \cup {Str(s) : s \in Texts(MaxLen) \cup {T_1234}}

\* dtypes a column holding the cell can have after read_csv
DTypesOf(c) ==
    CASE c.t = "str" -> {"object"}
      [] c.t = "num" -> {"int64"}
      [] OTHER       -> {"object", "float64"}

IdleW == /\ w_pc = "idle" /\ df_votes = <<>> /\ idx = <<>>
         /\ winners_df = <<>> /\ winners_csv = <<>>
IdleC == /\ c_pc = "idle" /\ input_df = <<>> /\ df = <<>>
         /\ zero_cols = <<>> /\ cleaned_csv = <<>>
IdleP == /\ p_pc = "idle" /\ folders = <<>> /\ pending = <<>> /\ todo = {}
         /\ month_data = <<>> /\ file_name = <<>> /\ column_name = "None"
         /\ all_data = <<>> /\ report_df = <<>> /\ report_csv = <<>>
IdleN == /\ n_pc = "idle" /\ value = NaN /\ dtype = "object" /\ ncols = 0
         /\ stored = NaN

InitCoerce ==
    /\ IdleW /\ IdleC /\ IdleP
    /\ n_pc = "raw"
    /\ value \in RawCells
    /\ dtype \in DTypesOf(value)
    /\ ncols \in {value_col_idx, value_col_idx + 1}
    /\ stored = NaN

\* the cleaner's steps 2 and 3 applied to the cell
CleanerStore ==
    /\ n_pc = "raw"
    /\ stored' = ConvertCell(IF dtype = "object" THEN StripCell(value) ELSE value)
    /\ n_pc' = "cleaned"
    /\ UNCHANGED <<value, dtype, ncols, varsW, varsC, varsP>>

\* the monthly parser's extraction of the cell from a row of ncols columns
ParserStore ==
    /\ n_pc = "raw"
    /\ stored' = ExtractValue(value, ncols)
    /\ n_pc' = "parsed"
    /\ UNCHANGED <<value, dtype, ncols, varsW, varsC, varsP>>

NextCoerce == CleanerStore \/ ParserStore

SpecCoerce == InitCoerce /\ [][NextCoerce]_vars

---------------------------------------------------------------------------
(* Ordering of texts, as Python and pandas compare str values *)

\* the modelled characters in code-point order
Collation ==
    <<" ", ",", "-", "0", "1", "2", "3", "4", "5", "6", "7", "8", "9",
      "A", "B", "C", "D", "E", "F", "G", "H", "I", "J", "K", "L", "M",
      "N", "O", "P", "Q", "R", "S", "T", "U", "V", "W", "X", "Y", "Z",
      "a", "b", "c", "d", "e", "f", "g", "h", "i", "j", "k", "l", "m",
      "n", "o", "p", "q", "r", "s", "t", "u", "v", "w", "x", "y", "z">>

CodePoints ==
    [ch \in {Collation[i] : i \in DOMAIN Collation} |->
        CHOOSE i \in DOMAIN Collation : Collation[i] = ch]

\* ord(ch), up to the order-preserving renumbering of the modelled characters
Ord(ch) == CodePoints[ch]

RECURSIVE TextLess(_, _)
TextLess(a, b) ==
    IF b = <<>> THEN FALSE
    ELSE IF a = <<>> THEN TRUE
    ELSE IF Head(a) = Head(b) THEN TextLess(Tail(a), Tail(b))
    ELSE Ord(Head(a)) < Ord(Head(b))

\* Stable insertion of position i into the ordered sequence of positions p,
\* lt[<<i, j>>] telling whether the row at i sorts before the row at j:
\* i goes after every position whose row is not greater than its own.
RECURSIVE InsertSorted(_, _, _)
InsertSorted(p, i, lt) ==
    IF p = <<>> THEN <<i>>
    ELSE IF lt[<<i, Head(p)>>] THEN <<i>> \o p
         ELSE <<Head(p)>> \o InsertSorted(Tail(p), i, lt)

\* the positions 1..n in sorted order
RECURSIVE SortedPositions(_, _)
SortedPositions(n, lt) ==
    IF n = 0 THEN <<>>
    ELSE InsertSorted(SortedPositions(n - 1, lt), n, lt)

\* DataFrame.sort_values: a stable sort of the rows of s
SortRows(s, lt) ==
    LET p == SortedPositions(Len(s), lt) IN [k \in 1..Len(s) |-> s[p[k]]]

---------------------------------------------------------------------------
(* process_president_winners.py *)

\* Rows of the vote table.  The index label of row i is i (a RangeIndex).
\* Every year, state and candidatevotes cell is present.
Years      == {2016, 2020}
States     == {<<"X">>, <<"Y">>}
Candidates == {<<"a">>, <<"b">>}
VoteCounts == {100, 200}

VoteRows == [year : Years, state : States, candidate : Candidates,
             candidatevotes : VoteCounts]

VoteTables == UNION {[1..n -> VoteRows] : n \in 0..MaxRows}

KeyOf(r) == [year |-> r.year, state |-> r.state]

KeyLess(a, b) ==
    \/ a.year < b.year
    \/ a.year = b.year /\ TextLess(a.state, b.state)

\* A plausible slip: grouping by year alone.
GroupOfYear(d, k) == {i \in DOMAIN d : d[i].year = k.year}

\* groupby(['year', 'state']): the labels of the rows in group k
GroupOf(d, k) == {i \in DOMAIN d : KeyOf(d[i]) = k}

\* the group keys that occur in the table
GroupKeys(d) == {KeyOf(d[i]) : i \in DOMAIN d}

\* A plausible slip: on a tie the last row holding the maximum is taken.
IdxMaxLast(d, k) ==
    CHOOSE i \in GroupOf(d, k) :
        /\ \A j \in GroupOf(d, k) : d[j].candidatevotes <= d[i].candidatevotes
        /\ \A j \in GroupOf(d, k) :
               j > i => d[j].candidatevotes < d[i].candidatevotes

\* ['candidatevotes'].idxmax(): the label of the first row of the group
\* holding the group's maximum
IdxMax(d, k) ==
    CHOOSE i \in GroupOf(d, k) :
        /\ \A j \in GroupOf(d, k) : d[j].candidatevotes <= d[i].candidatevotes
        /\ \A j \in GroupOf(d, k) :
               j < i => d[j].candidatevotes < d[i].candidatevotes

\* the group keys in ascending order (groupby sorts its keys)
RECURSIVE SortedKeys(_)
SortedKeys(S) ==
    IF S = {} THEN <<>>
    ELSE LET m == CHOOSE k \in S : \A o \in S \ {k} : KeyLess(k, o)
         IN  <<m>> \o SortedKeys(S \ {m})

InitWinners ==
    /\ IdleC /\ IdleP /\ IdleN
    /\ w_pc = "groupby"
    /\ df_votes \in VoteTables
    /\ idx = <<>>
    /\ winners_df = <<>>
    /\ winners_csv = <<>>

\* line 11: idx = df.groupby(['year', 'state'])['candidatevotes'].idxmax()
GroupIdxMax ==
    /\ w_pc = "groupby"
    /\ idx' = LET ks == SortedKeys(GroupKeys(df_votes))
              IN  [n \in 1..Len(ks) |->
                      [key |-> ks[n], label |-> IdxMax(df_votes, ks[n])]]
    /\ w_pc' = "loc"
    /\ UNCHANGED <<df_votes, winners_df, winners_csv, varsC, varsP, varsN>>

\* line 14: winners_df = df.loc[idx].copy()
LocCopy ==
    /\ w_pc = "loc"
    /\ winners_df' = [n \in 1..Len(idx) |->
                         [index          |-> idx[n].label,
                          year           |-> df_votes[idx[n].label].year,
                          state          |-> df_votes[idx[n].label].state,
                          candidate      |-> df_votes[idx[n].label].candidate,
                          candidatevotes |-> df_votes[idx[n].label].candidatevotes]]
    /\ w_pc' = "winner"
    /\ UNCHANGED <<df_votes, idx, winners_csv, varsC, varsP, varsN>>

\* line 17: winners_df['winner'] = winners_df['candidate']
AddWinner ==
    /\ w_pc = "winner"
    /\ winners_df' = [n \in 1..Len(winners_df) |->
                         [index          |-> winners_df[n].index,
                          year           |-> winners_df[n].year,
                          state          |-> winners_df[n].state,
                          candidate      |-> winners_df[n].candidate,
                          candidatevotes |-> winners_df[n].candidatevotes,
                          winner         |-> winners_df[n].candidate]]
    /\ w_pc' = "sort"
    /\ UNCHANGED <<df_votes, idx, winners_csv, varsC, varsP, varsN>>

\* line 20: winners_df = winners_df.sort_values(['year', 'state'])
SortWinners ==
    /\ w_pc = "sort"
    /\ winners_df' = SortRows(winners_df,
                     [q \in (DOMAIN winners_df) \X (DOMAIN winners_df) |->
                         KeyLess(KeyOf(winners_df[q[1]]), KeyOf(winners_df[q[2]]))])
    /\ w_pc' = "reset"
    /\ UNCHANGED <<df_votes, idx, winners_csv, varsC, varsP, varsN>>

\* line 23: winners_df = winners_df.reset_index(drop=True)
ResetIndex ==
    /\ w_pc = "reset"
    /\ winners_df' = [n \in 1..Len(winners_df) |->
                         [winners_df[n] EXCEPT !.index = n]]
    /\ w_pc' = "save"
    /\ UNCHANGED <<df_votes, idx, winners_csv, varsC, varsP, varsN>>

\* line 31: winners_df.to_csv(output_file, index=False)
SaveWinners ==
    /\ w_pc = "save"
    /\ winners_csv' = [n \in 1..Len(winners_df) |->
                          [year           |-> winners_df[n].year,
                           state          |-> winners_df[n].state,
                           candidate      |-> winners_df[n].candidate,
                           candidatevotes |-> winners_df[n].candidatevotes,
                           winner         |-> winners_df[n].winner]]
    /\ w_pc' = "done"
    /\ UNCHANGED <<df_votes, idx, winners_df, varsC, varsP, varsN>>

NextWinners ==
    \/ GroupIdxMax \/ LocCopy \/ AddWinner
    \/ SortWinners \/ ResetIndex \/ SaveWinners

SpecWinners == InitWinners /\ [][NextWinners]_vars

C2_FirstMaxRow ==
    /\ w_pc \in {"winner", "sort", "reset"} =>
           \A n \in DOMAIN winners_df :
               LET i == winners_df[n].index IN
               /\ i \in DOMAIN df_votes
               /\ \A j \in DOMAIN df_votes :
                      KeyOf(df_votes[j]) = KeyOf(df_votes[i]) =>
                          /\ df_votes[j].candidatevotes <= df_votes[i].candidatevotes
                          /\ j < i => df_votes[j].candidatevotes
                                          < df_votes[i].candidatevotes
    /\ w_pc = "done" =>
           \A n \in DOMAIN winners_csv :
               \E i \in DOMAIN df_votes :
                   /\ KeyOf(df_votes[i]) = KeyOf(winners_csv[n])
                   /\ winners_csv[n].candidate = df_votes[i].candidate
                   /\ winners_csv[n].candidatevotes = df_votes[i].candidatevotes
                   /\ winners_csv[n].winner = df_votes[i].candidate
                   /\ \A j \in DOMAIN df_votes :
                          KeyOf(df_votes[j]) = KeyOf(df_votes[i]) =>
                              /\ df_votes[j].candidatevotes
                                     <= df_votes[i].candidatevotes
                              /\ j < i => df_votes[j].candidatevotes
                                              < df_votes[i].candidatevotes

\* C2 witness: a finished run on a group whose two rows tie on the maximum
\* with different candidates; the first row's candidate is the winner.
C2_Witness ==
    /\ w_pc = "done"
    /\ Len(df_votes) = 2
    /\ KeyOf(df_votes[1]) = KeyOf(df_votes[2])
    /\ df_votes[1].candidatevotes = df_votes[2].candidatevotes
    /\ df_votes[1].candidate # df_votes[2].candidate
    /\ winners_csv[1].winner = df_votes[1].candidate

---------------------------------------------------------------------------
(* clean_national_parks.py *)

\* A table is [index : the row labels, columns : the columns in order]; a
\* column is [name, dtype, cells], cells a sequence as long as the index.

T_Unnamed   == "Unnamed: 0"
T_ParkName  == "ParkName"
T_Year      == "Year"
T_RecVisits == "RecreationVisits"
T_Misc      == "MiscellaneousOvernightStays"
T_MiscTotal == "MiscellaneousOvernightStaysTotal"
T_Delta     == "Delta"

\* the columns an input file may hold, in file order
InputColumns ==
    <<T_Unnamed, T_ParkName, T_Year, T_RecVisits, T_Misc, T_MiscTotal, T_Delta>>

\* the cell values an input column may hold
InputCells(name) ==
    CASE name = T_Unnamed   -> {NaN}
      [] name = T_ParkName  -> {Str(<<" ", "Z", "i", "o", "n", " ">>)}
      [] name = T_Year      -> {Num(2024), NaN}
      [] name = T_RecVisits -> {Str(T_1234), Str(<<"x">>), NaN}
      [] name = T_Misc      -> {Num(0), Num(7)}
      [] name = T_MiscTotal -> {Num(7)}
      [] name = T_Delta     -> {Num(1), Num(0 - 1)}

\* the dtype read_csv infers for a column
InferDType(cells) ==
    IF \E i \in DOMAIN cells : cells[i].t = "str" THEN "object"
    ELSE IF \E i \in DOMAIN cells : cells[i].t = "nan" THEN "float64"
    ELSE "int64"

\* an input column of n cells, or its absence from the file
ColumnChoices(name, n) ==
    {<<>>} \cup
    {<<[name |-> name, dtype |-> InferDType(f), cells |-> f]>> :
         f \in [1..n -> InputCells(name)]}

\* df is a table read from a file holding n >= 1 rows and any of the input
\* columns, in file order
IsInputTable(d) ==
    \E n \in 1..MaxRows :
      \E c1 \in ColumnChoices(InputColumns[1], n) :
      \E c2 \in ColumnChoices(InputColumns[2], n) :
      \E c3 \in ColumnChoices(InputColumns[3], n) :
      \E c4 \in ColumnChoices(InputColumns[4], n) :
      \E c5 \in ColumnChoices(InputColumns[5], n) :
      \E c6 \in ColumnChoices(InputColumns[6], n) :
      \E c7 \in ColumnChoices(InputColumns[7], n) :
          d = [index   |-> [i \in 1..n |-> i],
               columns |-> c1 \o c2 \o c3 \o c4 \o c5 \o c6 \o c7]

\* line 44: numeric_cols
numeric_cols ==
    <<"RecreationVisits", "NonRecreationVisits", "RecreationHours",
      "NonRecreationHours", "ConcessionerLodging", "ConcessionerCamping",
      "TentCampers", "RVCampers", "Backcountry",
      "NonRecreationOvernightStays", "MiscellaneousOvernightStays",
      "MiscellaneousOvernightStaysTotal">>

\* line 87: cols_to_remove
cols_to_remove ==
    <<"ConcessionerLodging", "ConcessionerCamping",
      "NonRecreationOvernightStays", "MiscellaneousOvernightStays",
      "MiscellaneousOvernightStaysTotal">>

Range(s) == {s[i] : i \in DOMAIN s}

\* df.columns
ColumnNames(d) == {d.columns[i].name : i \in DOMAIN d.columns}

\* col in df.columns
HasColumn(d, name) == name \in ColumnNames(d)

\* df[name]
Column(d, name) ==
    d.columns[CHOOSE i \in DOMAIN d.columns : d.columns[i].name = name]

\* len(df)
NRows(d) == Len(d.index)

\* df.drop(columns=names)
DropColumns(d, names) ==
    [d EXCEPT !.columns = SelectSeq(d.columns, LAMBDA c : c.name \notin names)]

\* df.columns.str.contains('^Unnamed'), over the modelled names
IsUnnamed(name) == name \in {T_Unnamed}

AllNa(c) == \A i \in DOMAIN c.cells : IsNa(c.cells[i])

\* A plausible slip: dropna along the other axis, dropping the rows that
\* are entirely empty.
RemoveEmptyRows(d) ==
    LET e  == DropColumns(d, {n \in ColumnNames(d) : IsUnnamed(n)})
        keep == SelectSeq(e.index,
                    LAMBDA i : \E k \in DOMAIN e.columns :
                                   ~IsNa(e.columns[k].cells[i]))
    IN  [index   |-> keep,
         columns |-> [k \in DOMAIN e.columns |->
                         [e.columns[k] EXCEPT
                             !.cells = [j \in DOMAIN keep |->
                                           e.columns[k].cells[keep[j]]]]]]

\* lines 30-31: df.loc[:, ~df.columns.str.contains('^Unnamed')], then
\* df.dropna(axis=1, how='all')
RemoveEmptyColumns(d) ==
    LET e == DropColumns(d, {n \in ColumnNames(d) : IsUnnamed(n)})
    IN  DropColumns(e, {n \in ColumnNames(e) : AllNa(Column(e, n))})

\* lines 37-40: astype(str).str.strip() on every object column
StripTextColumns(d) ==
    [d EXCEPT !.columns =
        [k \in DOMAIN d.columns |->
            IF d.columns[k].dtype = "object"
            THEN [d.columns[k] EXCEPT
                     !.cells = [i \in DOMAIN d.columns[k].cells |->
                                   StripCell(d.columns[k].cells[i])]]
            ELSE d.columns[k]]]

\* lines 50-55: every named numeric column present is converted
ConvertNumericColumns(d) ==
    [d EXCEPT !.columns =
        [k \in DOMAIN d.columns |->
            IF d.columns[k].name \in Range(numeric_cols)
            THEN [d.columns[k] EXCEPT
                     !.dtype = "int64",
                     !.cells = [i \in DOMAIN d.columns[k].cells |->
                                   ConvertCell(d.columns[k].cells[i])]]
            ELSE d.columns[k]]]

\* Series.equals: same dtype, same values
SeriesEquals(a, b) == a.dtype = b.dtype /\ a.cells = b.cells

\* lines 59-66
DropDuplicateTotal(d) ==
    IF /\ HasColumn(d, T_MiscTotal)
       /\ HasColumn(d, T_Misc)
       /\ SeriesEquals(Column(d, T_MiscTotal), Column(d, T_Misc))
    THEN DropColumns(d, {T_MiscTotal})
    ELSE d

\* pd.api.types.is_numeric_dtype
IsNumericDType(dt) == dt \in {"int64", "float64"}

\* Series.sum(): the missing values are skipped
RECURSIVE SumCells(_)
SumCells(cells) ==
    IF cells = <<>> THEN 0
    ELSE (IF Head(cells).t = "num" THEN Head(cells).v ELSE 0)
         + SumCells(Tail(cells))

\* (df[col] == 0).all()
AllZero(c) == \A i \in DOMAIN c.cells : c.cells[i] = Num(0)

\* lines 73-74: (df[col] == 0).all() or df[col].sum() == 0
ZeroTest(c) ==
    IsNumericDType(c.dtype) /\ (AllZero(c) \/ SumCells(c.cells) = 0)

\* lines 70-75: zero_cols, in column order
ZeroColumns(d) ==
    LET z == SelectSeq(d.columns, ZeroTest) IN [k \in DOMAIN z |-> z[k].name]

InitCleaner ==
    /\ IdleW /\ IdleP /\ IdleN
    /\ c_pc = "step1"
    /\ IsInputTable(input_df)
    /\ df = input_df
    /\ zero_cols = <<>>
    /\ cleaned_csv = <<>>

\* [1] Removing empty columns
Step1 ==
    /\ c_pc = "step1"
    /\ df' = RemoveEmptyColumns(df)
    /\ c_pc' = "step2"
    /\ UNCHANGED <<input_df, zero_cols, cleaned_csv, varsW, varsP, varsN>>

\* [2] Stripping whitespace from text columns
Step2 ==
    /\ c_pc = "step2"
    /\ df' = StripTextColumns(df)
    /\ c_pc' = "step3"
    /\ UNCHANGED <<input_df, zero_cols, cleaned_csv, varsW, varsP, varsN>>

\* [3] Converting numeric columns (removing commas)
Step3 ==
    /\ c_pc = "step3"
    /\ df' = ConvertNumericColumns(df)
    /\ c_pc' = "step4"
    /\ UNCHANGED <<input_df, zero_cols, cleaned_csv, varsW, varsP, varsN>>

\* [4] Checking for duplicate columns
Step4 ==
    /\ c_pc = "step4"
    /\ df' = DropDuplicateTotal(df)
    /\ c_pc' = "step5"
    /\ UNCHANGED <<input_df, zero_cols, cleaned_csv, varsW, varsP, varsN>>

\* [5] Removing columns with only zero values
Step5 ==
    /\ c_pc = "step5"
    /\ zero_cols' = ZeroColumns(df)
    /\ df' = DropColumns(df, Range(ZeroColumns(df)))
    /\ c_pc' = "step5b"
    /\ UNCHANGED <<input_df, cleaned_csv, varsW, varsP, varsN>>

\* [5b] Removing specific unwanted columns
Step5b ==
    /\ c_pc = "step5b"
    /\ df' = DropColumns(df, Range(cols_to_remove) \cap ColumnNames(df))
    /\ c_pc' = "step6"
    /\ UNCHANGED <<input_df, zero_cols, cleaned_csv, varsW, varsP, varsN>>

\* [6] Data quality summary: df['Year'] and df['ParkName'] are read without
\* a test; an absent column raises KeyError and the run ends there.
Step6 ==
    /\ c_pc = "step6"
    /\ c_pc' = IF HasColumn(df, T_Year) /\ HasColumn(df, T_ParkName)
               THEN "step7" ELSE "KeyError"
    /\ UNCHANGED <<input_df, df, zero_cols, cleaned_csv, varsW, varsP, varsN>>

\* [7] Saving cleaned data; the function returns df
Step7 ==
    /\ c_pc = "step7"
    /\ cleaned_csv' = df
    /\ c_pc' = "done"
    /\ UNCHANGED <<input_df, df, zero_cols, varsW, varsP, varsN>>

NextCleaner ==
    \/ Step1 \/ Step2 \/ Step3 \/ Step4 \/ Step5 \/ Step5b \/ Step6 \/ Step7

SpecCleaner == InitCleaner /\ [][NextCleaner]_vars

\* C3: no step of the cleaner adds or removes a row: the table holds the
\* input's number of rows after every step, every column is as long as the
\* index, and so does the table written at the end.
C3_RowCountPreserved ==
    /\ c_pc # "idle" =>
           /\ NRows(df) = NRows(input_df)
           /\ \A k \in DOMAIN df.columns :
                  Len(df.columns[k].cells) = NRows(input_df)
    /\ c_pc = "done" =>
           /\ NRows(cleaned_csv) = NRows(input_df)
           /\ \A k \in DOMAIN cleaned_csv.columns :
                  Len(cleaned_csv.columns[k].cells) = NRows(input_df)

\* C3 witness: a finished run on a two-row table that lost columns and
\* kept its two rows.
C3_Witness ==
    /\ c_pc = "done"
    /\ NRows(input_df) = 2
    /\ NRows(cleaned_csv) = 2
    /\ Len(cleaned_csv.columns) < Len(input_df.columns)

\* C4: the zero-column step drops a numeric column if and only if every
\* one of its values is zero.
C4_DroppedIffAllZero ==
    [][c_pc = "step5" =>
          \A k \in DOMAIN df.columns :
              IsNumericDType(df.columns[k].dtype) =>
                  (~HasColumn(df', df.columns[k].name) <=> AllZero(df.columns[k]))]_vars

\* C5: the run never ends in an error raised for an absent column.
C5_NoErrorOnAbsentColumn == c_pc # "KeyError"

---------------------------------------------------------------------------
(* Claims on the cell-level coercion *)

WithoutCommas(s) == SelectSeq(s, LAMBDA ch : ch # ",")

\* s reads as a number: blanks, an optional sign and at least one digit
IsNumeral(s) ==
    \E a, b \in 0..Len(s) :
        /\ a + b < Len(s)
        /\ \A i \in 1..a : s[i] = " "
        /\ \A i \in (Len(s) - b + 1)..Len(s) : s[i] = " "
        /\ LET core == SubSeq(s, a + 1, Len(s) - b) IN
           \/ AllDigits(core)
           \/ core[1] = "-" /\ AllDigits(Tail(core))

IsBlank(s) == \A i \in DOMAIN s : s[i] = " "

\* the value is missing or cannot be parsed as a number after comma removal
Unparseable(c) ==
    \/ IsNa(c)
    \/ c.t = "str" /\ ~IsNumeral(WithoutCommas(c.v))

---------------------------------------------------------------------------
(* parse_monthly_data.py *)

W_non           == <<"n", "o", "n">>
W_recreation    == <<"r", "e", "c", "r", "e", "a", "t", "i", "o", "n">>
W_visits        == <<"v", "i", "s", "i", "t", "s">>
W_hours         == <<"h", "o", "u", "r", "s">>
W_overnight     == <<"o", "v", "e", "r", "n", "i", "g", "h", "t">>
W_stays         == <<"s", "t", "a", "y", "s">>
W_concessioner  == <<"c", "o", "n", "c", "e", "s", "s", "i", "o", "n", "e", "r">>
W_lodging       == <<"l", "o", "d", "g", "i", "n", "g">>
W_camping       == <<"c", "a", "m", "p", "i", "n", "g">>
W_tent          == <<"t", "e", "n", "t">>
W_campers       == <<"c", "a", "m", "p", "e", "r", "s">>
W_rv            == <<"r", "v">>
W_backcountry   == <<"b", "a", "c", "k", "c", "o", "u", "n", "t", "r", "y">>
W_miscellaneous == <<"m", "i", "s", "c", "e", "l", "l", "a", "n", "e", "o", "u", "s">>
SP              == <<" ">>

\* lines 59-71: file_mappings, in the order the dict is written
file_mappings ==
    << [pattern |-> W_non \o SP \o W_recreation \o SP \o W_visits,
        col |-> "NonRecreationVisits"],
       [pattern |-> W_non \o SP \o W_recreation \o SP \o W_hours,
        col |-> "NonRecreationHours"],
       [pattern |-> W_non \o SP \o W_recreation \o SP \o W_overnight \o SP \o W_stays,
        col |-> "NonRecreationOvernightStays"],
       [pattern |-> W_recreation \o SP \o W_visits, col |-> "RecreationVisits"],
       [pattern |-> W_recreation \o SP \o W_hours,  col |-> "RecreationHours"],
       [pattern |-> W_concessioner \o SP \o W_lodging, col |-> "ConcessionerLodging"],
       [pattern |-> W_concessioner \o SP \o W_camping, col |-> "ConcessionerCamping"],
       [pattern |-> W_tent \o SP \o W_campers, col |-> "TentCampers"],
       [pattern |-> W_rv \o SP \o W_campers,   col |-> "RVCampers"],
       [pattern |-> W_backcountry \o SP \o W_campers, col |-> "Backcountry"],
       [pattern |-> W_miscellaneous \o SP \o W_overnight \o SP \o W_stays,
        col |-> "MiscellaneousOvernightStays"] >>

\* lines 127-133: expected_columns
expected_columns ==
    <<"ParkName", "UnitCode", "ParkType", "Region", "State",
      "Year", "Month", "RecreationVisits", "NonRecreationVisits",
      "RecreationHours", "NonRecreationHours", "ConcessionerLodging",
      "ConcessionerCamping", "TentCampers", "RVCampers", "Backcountry",
      "NonRecreationOvernightStays", "MiscellaneousOvernightStays">>

T_January  == <<"J", "a", "n", "u", "a", "r", "y">>
T_February == <<"F", "e", "b", "r", "u", "a", "r", "y">>

\* lines 52-55: months, in the order the dict is written
months ==
    << [folder |-> "jan 25", month |-> T_January,  month_num |-> 1, year |-> 2025],
       [folder |-> "feb 25", month |-> T_February, month_num |-> 2, year |-> 2025] >>

\* line 143: month_order
month_order(m) == CASE m = T_January -> 1 [] m = T_February -> 2

\* str.lower(), one character
LowerChar(ch) ==
    IF Ord(ch) \in Ord("A")..Ord("Z")
    THEN Collation[Ord(ch) + (Ord("a") - Ord("A"))]
    ELSE ch

\* file.stem.lower()
Lower(s) == [i \in DOMAIN s |-> LowerChar(s[i])]

\* pattern in file_name
Contains(pattern, name) ==
    \E k \in 0..(Len(name) - Len(pattern)) :
        SubSeq(name, k + 1, k + Len(pattern)) = pattern

\* A plausible slip: the scan does not stop at the first match, so the last
\* matching pattern decides.
RECURSIVE MatchLastFrom(_, _, _)
MatchLastFrom(name, i, found) ==
    IF i > Len(file_mappings) THEN found
    ELSE MatchLastFrom(name, i + 1,
             IF Contains(file_mappings[i].pattern, name)
             THEN file_mappings[i].col ELSE found)

MatchColumnLast(name) == MatchLastFrom(name, 1, "None")

\* lines 93-97: the patterns are tried in order, the first match decides
RECURSIVE MatchFrom(_, _)
MatchFrom(name, i) ==
    IF i > Len(file_mappings) THEN "None"
    ELSE IF Contains(file_mappings[i].pattern, name) THEN file_mappings[i].col
    ELSE MatchFrom(name, i + 1)

\* column_name for a lower-cased file name; "None" stands for Python's None
MatchColumn(name) == MatchFrom(name, 1)

\* An insertion-ordered dict is a sequence of [key, val] with distinct keys.
DictKeys(d) == {d[i].key : i \in DOMAIN d}

DictGet(d, k) == d[CHOOSE i \in DOMAIN d : d[i].key = k].val

\* d[k] = v: a present key keeps its place, a new key goes last
DictSet(d, k, v) ==
    IF k \in DictKeys(d)
    THEN [i \in DOMAIN d |-> IF d[i].key = k THEN [key |-> k, val |-> v] ELSE d[i]]
    ELSE Append(d, [key |-> k, val |-> v])

T_Park == <<"P", "a", "r", "k">>

\* line 41: pd.notna(park_name) and park_name.strip() != '' and park_name != 'Park'
IsParkRow(park) ==
    /\ ~IsNa(park)
    /\ Strip(park.v) # <<>>
    /\ park.v # T_Park

\* lines 38-45: parse_csv_file over the rows of one file, result so far in r
RECURSIVE ParseRows(_, _, _)
ParseRows(rows, n, r) ==
    IF rows = <<>> THEN r
    ELSE ParseRows(Tail(rows), n,
             IF IsParkRow(Head(rows).park)
             THEN DictSet(r, Head(rows).park.v, ExtractValue(Head(rows).value, n))
             ELSE r)

\* parse_csv_file(file_path)
parse_csv_file(f) == ParseRows(f.rows, f.ncols, <<>>)

\* lines 112-116: the entry a park gets when first seen
NewEntry(park, info) ==
    [c \in {"ParkName", "Year", "Month"} |->
        CASE c = "ParkName" -> Str(park)
          [] c = "Year"     -> Num(info.year)
          [] c = "Month"    -> Str(info.month)]

\* e[c] = v on a dict held as a function
SetKey(e, c, v) == [k \in DOMAIN e \cup {c} |-> IF k = c THEN v ELSE e[k]]

\* A plausible slip: the entry is initialised for every park of every file,
\* the test "park not in month_data" left out.
RECURSIVE MergeValuesReinit(_, _, _, _)
MergeValuesReinit(md, pv, col, info) ==
    IF pv = <<>> THEN md
    ELSE LET park == Head(pv).key
         IN  MergeValuesReinit(
                 DictSet(md, park, SetKey(NewEntry(park, info), col, Head(pv).val)),
                 Tail(pv), col, info)

\* lines 109-117: the values of one file are added to month_data
RECURSIVE MergeValues(_, _, _, _)
MergeValues(md, pv, col, info) ==
    IF pv = <<>> THEN md
    ELSE LET park == Head(pv).key
             e    == IF park \in DictKeys(md) THEN DictGet(md, park)
                     ELSE NewEntry(park, info)
         IN  MergeValues(DictSet(md, park, SetKey(e, col, Head(pv).val)),
                         Tail(pv), col, info)

\* lines 90-117: one file of the folder is processed
ProcessOne(md, f, info) ==
    LET col == MatchColumn(Lower(f.stem)) IN
    IF col = "None" THEN md
    ELSE MergeValues(md, parse_csv_file(f), col, info)

\* lines 124-140: pd.DataFrame(all_data), the absent expected columns added
\* as None, the columns put in the expected order
BuildFrame(data) ==
    LET present == UNION {DOMAIN data[i] : i \in DOMAIN data} IN
    [i \in DOMAIN data |->
        [c \in Range(expected_columns) |->
            IF c \in DOMAIN data[i] THEN data[i][c]
            ELSE IF c \in present THEN NaN ELSE None]]

\* A plausible slip: the park name is left out of the sort key.
ReportOrderByMonth(rows) ==
    [q \in (DOMAIN rows) \X (DOMAIN rows) |->
        month_order(rows[q[1]]["Month"].v) < month_order(rows[q[2]]["Month"].v)]

\* A plausible slip: the month is left out of the sort key.
ReportOrderByPark(rows) ==
    [q \in (DOMAIN rows) \X (DOMAIN rows) |->
        TextLess(rows[q[1]]["ParkName"].v, rows[q[2]]["ParkName"].v)]

\* lines 143-145: the order of sort_values(['MonthOrder', 'ParkName'])
ReportOrder(rows) ==
    [q \in (DOMAIN rows) \X (DOMAIN rows) |->
        LET a == rows[q[1]]
            b == rows[q[2]]
        IN  \/ month_order(a["Month"].v) < month_order(b["Month"].v)
            \/ /\ month_order(a["Month"].v) = month_order(b["Month"].v)
               /\ TextLess(a["ParkName"].v, b["ParkName"].v)]

\* lines 143-146
SortReport(rows) == SortRows(rows, ReportOrder(rows))

(* Inputs of the monthly parser *)

P_Acadia == <<"A", "c", "a", "d", "i", "a">>
P_Bryce  == <<"B", "r", "y", "c", "e">>
P_Zion   == <<"Z", "i", "o", "n">>

\* A CSV file is [stem, ncols, rows]; a row is [park, value], the cells of
\* column 0 and of column 6 (value is unused when ncols <= 6).
F_RecVisits ==
    [stem  |-> <<"R", "e", "c", "r", "e", "a", "t", "i", "o", "n", " ",
                 "V", "i", "s", "i", "t", "s">>,
     ncols |-> 7,
     rows  |-> << [park |-> Str(T_Park),   value |-> Str(<<"x">>)],
                  [park |-> Str(P_Zion),   value |-> Str(T_1234)],
                  [park |-> Str(P_Acadia), value |-> Str(<<"1", "2">>)],
                  [park |-> NaN,           value |-> Str(<<"7">>)] >>]

F_NonRecVisits ==
    [stem  |-> W_non \o SP \o W_recreation \o SP \o W_visits,
     ncols |-> 7,
     rows  |-> << [park |-> Str(P_Acadia), value |-> NaN],
                  [park |-> Str(P_Bryce),  value |-> Num(7)] >>]

F_TentCampers ==
    [stem  |-> W_tent \o SP \o W_campers,
     ncols |-> 6,
     rows  |-> << [park |-> Str(P_Zion),       value |-> NaN],
                  [park |-> Str(<<" ", " ">>), value |-> NaN] >>]

F_Summary ==
    [stem  |-> <<"s", "u", "m", "m", "a", "r", "y">>,
     ncols |-> 7,
     rows  |-> << [park |-> Str(P_Bryce), value |-> Num(5)] >>]

F_TotalRecVisits ==
    [stem  |-> <<"t", "o", "t", "a", "l">> \o SP \o W_recreation \o SP \o W_visits,
     ncols |-> 7,
     rows  |-> << [park |-> Str(P_Acadia), value |-> Num(99)],
                  [park |-> Str(P_Bryce),  value |-> Num(3)],
                  [park |-> Str(P_Acadia), value |-> Num(100)] >>]

FileUniverse ==
    {F_RecVisits, F_NonRecVisits, F_TentCampers, F_Summary, F_TotalRecVisits}

\* a month folder: absent, or holding at most MaxFiles CSV files
FolderChoices ==
    {[exists |-> FALSE, files |-> {}]}
    \cup {[exists |-> TRUE, files |-> S] :
              S \in {T \in SUBSET FileUniverse : Cardinality(T) <= MaxFiles}}

InitParser ==
    /\ IdleW /\ IdleC /\ IdleN
    /\ p_pc = "folders"
    /\ folders \in [1..Len(months) -> FolderChoices]
    /\ pending = [i \in 1..Len(months) |-> i]
    /\ todo = {}
    /\ month_data = <<>>
    /\ file_name = <<>>
    /\ column_name = "None"
    /\ all_data = <<>>
    /\ report_df = <<>>
    /\ report_csv = <<>>

\* lines 79-81: the folder does not exist: a warning, and on to the next
SkipFolder ==
    /\ p_pc = "folders"
    /\ pending # <<>>
    /\ ~folders[Head(pending)].exists
    /\ pending' = Tail(pending)
    /\ UNCHANGED <<p_pc, folders, todo, month_data, file_name, column_name,
                   all_data, report_df, report_csv, varsW, varsC, varsN>>

\* lines 83-89: the folder exists: month_data = {} and its files are globbed
EnterFolder ==
    /\ p_pc = "folders"
    /\ pending # <<>>
    /\ folders[Head(pending)].exists
    /\ month_data' = <<>>
    /\ todo' = folders[Head(pending)].files
    /\ p_pc' = "files"
    /\ UNCHANGED <<folders, pending, file_name, column_name,
                   all_data, report_df, report_csv, varsW, varsC, varsN>>

\* lines 89-117: the next file glob yields, in whatever order it yields them
ProcessFile ==
    /\ p_pc = "files"
    /\ \E f \in todo :
           /\ file_name' = Lower(f.stem)
           /\ column_name' = MatchColumn(Lower(f.stem))
           /\ month_data' = ProcessOne(month_data, f, months[Head(pending)])
           /\ todo' = todo \ {f}
    /\ UNCHANGED <<p_pc, folders, pending, all_data, report_df, report_csv,
                   varsW, varsC, varsN>>

\* lines 120-121: the folder's records are appended to all_data
FinishFolder ==
    /\ p_pc = "files"
    /\ todo = {}
    /\ all_data' = all_data \o [i \in DOMAIN month_data |-> month_data[i].val]
    /\ pending' = Tail(pending)
    /\ p_pc' = "folders"
    /\ UNCHANGED <<folders, todo, month_data, file_name, column_name,
                   report_df, report_csv, varsW, varsC, varsN>>

\* lines 124-140
MakeFrame ==
    /\ p_pc = "folders"
    /\ pending = <<>>
    /\ report_df' = BuildFrame(all_data)
    /\ p_pc' = "sort"
    /\ UNCHANGED <<folders, pending, todo, month_data, file_name, column_name,
                   all_data, report_csv, varsW, varsC, varsN>>

\* lines 143-146
SortFrame ==
    /\ p_pc = "sort"
    /\ report_df' = SortReport(report_df)
    /\ p_pc' = "save"
    /\ UNCHANGED <<folders, pending, todo, month_data, file_name, column_name,
                   all_data, report_csv, varsW, varsC, varsN>>

\* line 150: df.to_csv(output_file, index=False)
SaveReport ==
    /\ p_pc = "save"
    /\ report_csv' = report_df
    /\ p_pc' = "done"
    /\ UNCHANGED <<folders, pending, todo, month_data, file_name, column_name,
                   all_data, report_df, varsW, varsC, varsN>>

NextParser ==
    \/ SkipFolder \/ EnterFolder \/ ProcessFile \/ FinishFolder
    \/ MakeFrame \/ SortFrame \/ SaveReport

SpecParser == InitParser /\ [][NextParser]_vars

---------------------------------------------------------------------------
(* The three scripts and the cell-level functions together *)

Init == InitWinners \/ InitCleaner \/ InitParser \/ InitCoerce

Next == NextWinners \/ NextCleaner \/ NextParser \/ NextCoerce

Spec == Init /\ [][Next]_vars

---------------------------------------------------------------------------
(* Claims on the monthly parser *)

Parks == {P_Acadia, P_Bryce, P_Zion}

MetricColumns == {file_mappings[i].col : i \in DOMAIN file_mappings}

\* the patterns that are substrings of a lower-cased file name
Hits(name) ==
    {i \in DOMAIN file_mappings : Contains(file_mappings[i].pattern, name)}

\* the column of the first pattern, in table order, contained in the name
FirstHitColumn(name) ==
    IF Hits(name) = {} THEN "None"
    ELSE file_mappings[CHOOSE i \in Hits(name) : \A j \in Hits(name) : i <= j].col

\* the column each file of the universe is expected to populate
HitColumn == [f \in FileUniverse |-> FirstHitColumn(Lower(f.stem))]

\* park is listed in file f
Lists(f, park) == \E i \in DOMAIN f.rows : f.rows[i].park = Str(park)

\* the value the file holds for the park: that of the park's last row
ValueFrom(f, park) ==
    LET i == CHOOSE k \in DOMAIN f.rows :
                 /\ f.rows[k].park = Str(park)
                 /\ \A j \in DOMAIN f.rows : f.rows[j].park = Str(park) => j <= k
    IN  ExtractValue(f.rows[i].value, f.ncols)

\* the files of month folder m mapped to column c
MappedFiles(m, c) ==
    {f \in folders[m].files : HitColumn[f] = c}

\* the parks listed in at least one mapped file of month folder m
ListedParks(m) ==
    {park \in Parks :
         \E f \in folders[m].files : HitColumn[f] # "None" /\ Lists(f, park)}

\* C7: processing a file sets the column to that of the first pattern, in
\* table order, that is a substring of the lower-cased file name, and only
\* that column of the records changes; a file matching no pattern leaves
\* every record as it was.
C7_FirstPatternDecides ==
    [][(p_pc = "files" /\ todo' # todo) =>
          LET f    == CHOOSE g \in todo : g \notin todo'
              name == Lower(f.stem)
              col  == HitColumn[f]
          IN  /\ file_name' = name
              /\ column_name' = col
              /\ f = F_RecVisits => column_name' = "RecreationVisits"
              /\ f = F_NonRecVisits => column_name' = "NonRecreationVisits"
              /\ f = F_Summary => column_name' = "None"
              /\ col = "None" => month_data' = month_data
              /\ col # "None" =>
                     /\ \A park \in Parks :
                            Lists(f, park) =>
                                /\ park \in DictKeys(month_data')
                                /\ col \in DOMAIN DictGet(month_data', park)
                     /\ \A park \in DictKeys(month_data') :
                            \A c \in DOMAIN DictGet(month_data', park) \ {col} :
                                IF park \in DictKeys(month_data)
                                THEN /\ c \in DOMAIN DictGet(month_data, park)
                                     /\ DictGet(month_data', park)[c]
                                            = DictGet(month_data, park)[c]
                                ELSE c \in {"ParkName", "Year", "Month"}]_vars

\* C7 witness: the file "non recreation visits", whose name also contains
\* the later pattern "recreation visits", has just been processed into
\* NonRecreationVisits.
C7_Witness ==
    /\ p_pc = "files"
    /\ file_name = W_non \o SP \o W_recreation \o SP \o W_visits
    /\ column_name = "NonRecreationVisits"
    /\ \E park \in DictKeys(month_data) :
           "NonRecreationVisits" \in DOMAIN DictGet(month_data, park)

\* the record of a park holds, for each metric, the value of a file of that
\* metric listing the park, and nothing for a metric no file lists it under
RecordHolds(m, park, e) ==
    \A c \in MetricColumns :
        LET fs == {f \in MappedFiles(m, c) : Lists(f, park)} IN
        IF fs = {} THEN (c \in DOMAIN e => IsNa(e[c]))
        ELSE c \in DOMAIN e /\ \E f \in fs : e[c] = ValueFrom(f, park)

\* C8: when all files of a month folder are processed there is exactly one
\* record for every park listed in a mapped file of the folder and none for
\* any other; it holds each metric's value from the file listing the park
\* and no value for the other metrics, and the written table holds exactly
\* these records, the other metrics null.
C8_OneMergedRecordPerPark ==
    /\ (p_pc = "files" /\ todo = {}) =>
           LET m == Head(pending) IN
           /\ DictKeys(month_data) = ListedParks(m)
           /\ \A i, j \in DOMAIN month_data :
                  month_data[i].key = month_data[j].key => i = j
           /\ \A i \in DOMAIN month_data :
                  /\ month_data[i].val["ParkName"] = Str(month_data[i].key)
                  /\ month_data[i].val["Month"] = Str(months[m].month)
                  /\ RecordHolds(m, month_data[i].key, month_data[i].val)
                  /\ \A c \in MetricColumns :
                         c \in DOMAIN month_data[i].val =>
                             \E f \in MappedFiles(m, c) : Lists(f, month_data[i].key)
    /\ p_pc = "done" =>
           /\ \A m \in DOMAIN months : \A park \in ListedParks(m) :
                  \E i \in DOMAIN report_csv :
                      /\ report_csv[i]["ParkName"] = Str(park)
                      /\ report_csv[i]["Month"] = Str(months[m].month)
                      /\ RecordHolds(m, park, report_csv[i])
           /\ \A i \in DOMAIN report_csv :
                  \E m \in DOMAIN months :
                      /\ report_csv[i]["Month"] = Str(months[m].month)
                      /\ report_csv[i]["ParkName"].v \in ListedParks(m)
           /\ \A i, j \in DOMAIN report_csv :
                  (/\ report_csv[i]["ParkName"] = report_csv[j]["ParkName"]
                   /\ report_csv[i]["Month"] = report_csv[j]["Month"]) => i = j

\* C8 witness: a folder is finished in which Acadia is listed by two metric
\* files and by no tent-campers file: one record, both metrics set (one of
\* them to null, the file's cell being empty), TentCampers absent.
C8_Witness ==
    /\ p_pc = "files" /\ todo = {}
    /\ folders[Head(pending)].files = {F_RecVisits, F_NonRecVisits, F_TentCampers}
    /\ P_Acadia \in DictKeys(month_data)
    /\ DictGet(month_data, P_Acadia)["RecreationVisits"] = Num(12)
    /\ DictGet(month_data, P_Acadia)["NonRecreationVisits"] = None
    /\ "TentCampers" \notin DOMAIN DictGet(month_data, P_Acadia)

\* C9: in the written table no February record precedes a January record,
\* and within a month the park names ascend.
C9_SortedByMonthThenPark ==
    p_pc = "done" =>
        \A i, j \in DOMAIN report_csv :
            i < j =>
                /\ ~(/\ report_csv[i]["Month"] = Str(T_February)
                     /\ report_csv[j]["Month"] = Str(T_January))
                /\ report_csv[i]["Month"] = report_csv[j]["Month"] =>
                       TextLess(report_csv[i]["ParkName"].v,
                                report_csv[j]["ParkName"].v)

\* C9 witness: a written table with records of both months, built from
\* records that were collected in another order.
C9_Witness ==
    /\ p_pc = "done"
    /\ \E i, j \in DOMAIN report_csv :
           /\ report_csv[i]["Month"] = Str(T_January)
           /\ report_csv[j]["Month"] = Str(T_February)
    /\ \E i \in DOMAIN all_data :
           all_data[i]["ParkName"] # report_csv[i]["ParkName"]

\* no two files of month folder m are mapped to the same column
NoCollision(m) ==
    \A f, g \in folders[m].files :
        (f # g /\ HitColumn[f] # "None") => HitColumn[f] # HitColumn[g]

\* a reference run: the files of a folder processed in ascending stem order
RECURSIVE RunFiles(_, _, _)
RunFiles(md, files, info) ==
    IF files = {} THEN md
    ELSE LET f == CHOOSE g \in files :
                      \A h \in files \ {g} : TextLess(g.stem, h.stem)
         IN  RunFiles(ProcessOne(md, f, info), files \ {f}, info)

RECURSIVE ReferenceData(_)
ReferenceData(m) ==
    IF m = 0 THEN <<>>
    ELSE ReferenceData(m - 1) \o
         (IF folders[m].exists
          THEN LET md == RunFiles(<<>>, folders[m].files, months[m])
               IN  [i \in DOMAIN md |-> md[i].val]
          ELSE <<>>)

ReferenceReport == SortReport(BuildFrame(ReferenceData(Len(months))))

\* C10: when no two files of a folder are mapped to the same column the
\* written table is that of the reference run, whatever the order in which
\* the files were processed; and a processed file sets its column, for every
\* park it lists, to its own value, overwriting what an earlier file stored.
C10_OrderIndependent ==
    /\ [](p_pc = "done" /\ (\A m \in DOMAIN months : NoCollision(m))
             => report_csv = ReferenceReport)
    /\ [][(p_pc = "files" /\ todo' # todo /\ column_name' # "None") =>
             LET f == CHOOSE g \in todo : g \notin todo' IN
             \A park \in Parks :
                 Lists(f, park) =>
                     DictGet(month_data', park)[column_name'] = ValueFrom(f, park)]_vars

\* C10 witness: a written table of a run without collisions whose records
\* were collected in an order other than the written one.
C10_Witness ==
    /\ p_pc = "done"
    /\ \A m \in DOMAIN months : NoCollision(m)
    /\ \E m \in DOMAIN months : Cardinality(folders[m].files) = 3
    /\ \E i \in DOMAIN all_data :
           all_data[i]["ParkName"] # report_csv[i]["ParkName"]

=============================================================================
